---- MODULE Spec2Model ----
(***************************************************************************)
(* mkcert: the command-line front end (package main) and the orchestrator  *)
(* (package mkcert, main.go): option validation, CAROOT resolution, the    *)
(* Install / Uninstall / default trust-check steps over the three trust    *)
(* stores, and the hand-over to the certificate issuer.                    *)
(*                                                                         *)
(* One process invocation is a run: main parses and validates the options, *)
(* then Config.Run walks through its steps.  The trust stores and the      *)
(* files on disk outlive a run; everything else is per process.            *)
(* commandWithSudo, the gate in front of privileged commands, is modelled  *)
(* with the goroutines that may call it at the same time.                  *)
(***************************************************************************)
EXTENDS Integers, Sequences, FiniteSets, TLC

VARIABLES
    env,        \* the process environment and the probes made at start-up
    trusted,    \* trust store -> whether the local CA is in it (on the machine)
    files,      \* the files that exist on disk
    pc,         \* position of the running process ("idle": no process)
    flags,      \* the parsed command-line flags of the current/last run
    argv,       \* the positional arguments as given on the command line
    args,       \* flag.Args(): the positional arguments (Run rewrites them)
    puny,       \* the names this run has passed to idna.ToASCII, in order
    m,          \* the mkcert value (Config) Run works on
    pool,       \* the system cert pool as this process loaded it
    log,        \* what the current/last run did and logged, in order
    exit,       \* how the last process ended
    runs,       \* number of processes started so far
    prevLog,    \* log of the run before the current/last one
    priv,       \* whether the process runs as uid 0, and whether sudo is on PATH
    sudoWarningOnce, \* the sync.Once: its done flag and the holder of its mutex
    gpc,        \* caller -> its position in commandWithSudo
    gsaw,       \* caller -> what its last binaryExists("sudo") returned
    gres,       \* caller -> the command its last call returned
    warned,     \* the sudo warnings printed, with what their caller had seen
    calls       \* number of calls of commandWithSudo so far

procVars == <<env, trusted, files, pc, flags, argv, args, puny, m, pool, log, exit, runs, prevLog>>
gateVars == <<priv, sudoWarningOnce, gpc, gsaw, gres, warned, calls>>
vars == <<procVars, gateVars>>

----------------------------------------------------------------------------
(* Bounds *)

MaxRuns == 2        \* processes started one after another in a behaviour
MaxArgs == 1        \* positional arguments of an invocation

----------------------------------------------------------------------------
(* Names *)

Stores == {"system", "nss", "java"}

rootName == "rootCA.pem"
rootKeyName == "rootCA-key.pem"

CSRFile == "req.csr"

\* A name is a sequence of characters.  UUml is the one character outside
\* ASCII that is used, u with diaeresis, written as its code point.
UUml == "U+00FC"

IPv4Name == <<"1", ".", "1", ".", "1", ".", "1">>
IPv6Name == <<":", ":", "1">>
EmailName == <<"a", "@", "b">>
URIName == <<"a", ":", "/", "/", "b">>
HostName == <<"a", ".", "b">>
IDNName == <<UUml, ".", "b">>
IDNASCII == <<"x", "n", "-", "-", "t", "d", "a", ".", "b">>
BadACEName == <<"x", "n", "-", "-", UUml>>
BadName == <<"*", "a">>

\* Positional arguments tried: an IP literal, a hostname, an internationalised
\* hostname and a name the hostname grammar rejects.
Subjects == {IPv4Name, HostName, IDNName, BadName}

RECURSIVE SeqsUpTo(_, _)
SeqsUpTo(S, n) ==
    IF n = 0 THEN {<<>>}
    ELSE LET shorter == SeqsUpTo(S, n - 1)
         IN shorter \cup {Append(s, x) : s \in {t \in shorter : Len(t) = n - 1}, x \in S}

----------------------------------------------------------------------------
(* storeEnabled: TRUST_STORES is a string; it is modelled as a sequence of  *)
(* atoms, each either the separator "," or a piece of text without a comma. *)

\* strings.Split(s, sep) for a one-character separator: the fields between
\* the separators.
RECURSIVE SplitOn(_, _)
SplitOn(s, sep) ==
    IF \A i \in 1..Len(s) : s[i] # sep
    THEN <<s>>
    ELSE LET k == CHOOSE i \in 1..Len(s) : s[i] = sep /\ \A j \in 1..(i-1) : s[j] # sep
         IN <<SubSeq(s, 1, k - 1)>> \o SplitOn(SubSeq(s, k + 1, Len(s)), sep)

\* strings.Split(stores, ","): a field is the sequence of atoms between two
\* commas.
Split(s) == SplitOn(s, ",")

storeEnabledAlways(stores, name) == TRUE

storeEnabled(stores, name) ==
    IF stores = <<>> THEN TRUE
    ELSE \E i \in 1..Len(Split(stores)) : Split(stores)[i] = <<name>>

----------------------------------------------------------------------------
(* CAROOT(): paths are sequences of path elements, "" is the empty path.    *)

Join(dir, rest) == dir \o rest

CAROOT(e) ==
    IF e.CAROOT # <<>> THEN e.CAROOT
    ELSE IF e.GOOS = "windows" THEN Join(e.LocalAppData, <<"mkcert">>)
    ELSE IF e.XDG_DATA_HOME # <<>> THEN Join(e.XDG_DATA_HOME, <<"mkcert">>)
    ELSE IF e.GOOS = "darwin"
         THEN IF e.HOME = <<>> THEN <<>>
              ELSE Join(Join(e.HOME, <<"Library", "Application Support">>), <<"mkcert">>)
    ELSE IF e.HOME = <<>> THEN <<>>
         ELSE Join(Join(e.HOME, <<".local", "share">>), <<"mkcert">>)

----------------------------------------------------------------------------
(* The front end: main() up to the call of cfg.Run.                         *)

Flags == [install : BOOLEAN, uninstall : BOOLEAN, pkcs12 : BOOLEAN,
          ecdsa : BOOLEAN, client : BOOLEAN, help : BOOLEAN,
          version : BOOLEAN, caroot : BOOLEAN, csr : {"", CSRFile}]

\* The same decisions with the check of -csr against positional arguments
\* left out.
mainOutcomeNoArgCheck(f, a) ==
    IF f.help THEN "help"
    ELSE IF f.version THEN "version"
    ELSE IF f.caroot
         THEN IF f.install \/ f.uninstall THEN "fatal_caroot" ELSE "caroot"
    ELSE IF f.install /\ f.uninstall THEN "fatal_install_uninstall"
    ELSE IF f.csr # "" /\ (f.pkcs12 \/ f.ecdsa \/ f.client) THEN "fatal_csr_flags"
    ELSE IF Len(a) = 0 /\ ~f.install /\ ~f.uninstall /\ f.csr # "" THEN "usage"
    ELSE "run"

\* What main does with the parsed flags f and positional arguments a:
\* print and return, log.Fatalln, or build the Config and call Run.
mainOutcome(f, a) ==
    IF f.help THEN "help"
    ELSE IF f.version THEN "version"
    ELSE IF f.caroot
         THEN IF f.install \/ f.uninstall THEN "fatal_caroot" ELSE "caroot"
    ELSE IF f.install /\ f.uninstall THEN "fatal_install_uninstall"
    ELSE IF f.csr # "" /\ (f.pkcs12 \/ f.ecdsa \/ f.client) THEN "fatal_csr_flags"
    ELSE IF f.csr # "" /\ Len(a) # 0 THEN "fatal_csr_args"
    ELSE IF Len(a) = 0 /\ ~f.install /\ ~f.uninstall /\ f.csr # "" THEN "usage"
    ELSE "run"

Fatal(outcome) ==
    outcome \in {"fatal_caroot", "fatal_install_uninstall", "fatal_csr_flags", "fatal_csr_args"}

\* The zero Config, and the Config main builds from the flags.
ZeroConfig ==
    [InstallMode |-> FALSE, UninstallMode |-> FALSE, PKCS12 |-> FALSE,
     ECDSA |-> FALSE, Client |-> FALSE, CSRPath |-> "",
     CAROOT |-> <<>>, caCert |-> FALSE, ignoreCheckFailure |-> FALSE]

NewConfig(f) ==
    [ZeroConfig EXCEPT !.InstallMode = f.install, !.UninstallMode = f.uninstall,
                       !.CSRPath = f.csr, !.PKCS12 = f.pkcs12,
                       !.ECDSA = f.ecdsa, !.Client = f.client]

NoExit == [code |-> 0, out |-> "none"]

\* The process ends: Run returned err to main ("nil": no error), and main
\* exits 1 through log.Fatal on an error, 0 otherwise.
Finish(err) ==
    /\ pc' = "idle"
    /\ exit' = [code |-> IF err = "nil" THEN 0 ELSE 1, out |-> err]

Goto(p) ==
    /\ pc' = p
    /\ exit' = exit

\* A process is started with flags f and positional arguments a.
main(f, a) ==
    /\ pc = "idle"
    /\ runs' = runs + 1
    /\ flags' = f
    /\ argv' = a
    /\ args' = a
    /\ puny' = <<>>
    /\ prevLog' = log
    /\ log' = <<>>
    /\ pool' = trusted["system"]
    /\ LET o == mainOutcome(f, a) IN
         IF o = "run"
         THEN /\ m' = NewConfig(f)
              /\ pc' = "Run"
              /\ exit' = NoExit
         ELSE /\ m' = ZeroConfig
              /\ pc' = "idle"
              /\ exit' = [code |-> IF Fatal(o) THEN 1 ELSE 0, out |-> o]
    /\ UNCHANGED <<env, trusted, files>>
    /\ UNCHANGED gateVars

----------------------------------------------------------------------------
(* Run, lines 64-71: CAROOT resolution, MkdirAll, loadCA.                   *)

CARootDir == "CAROOT/"

ErrNoCAROOT == "ERROR: failed to find the default CA location"

\* Run's first lines without the test of the resolved path.
Run_beginNoEmptyTest ==
    /\ pc = "Run"
    /\ m' = [m EXCEPT !.CAROOT = CAROOT(env)]
    /\ \E ok \in BOOLEAN :
         IF ok
         THEN /\ files' = files \cup {CARootDir}
              /\ log' = Append(log, <<"fs", "", "mkdir">>)
              /\ Goto("loadCA")
         ELSE /\ UNCHANGED <<files, log>>
              /\ Finish("ERROR: failed to create the CAROOT")
    /\ UNCHANGED <<env, trusted, flags, argv, args, puny, pool, runs, prevLog>>
    /\ UNCHANGED gateVars

Run_begin ==
    /\ pc = "Run"
    /\ m' = [m EXCEPT !.CAROOT = CAROOT(env)]
    /\ IF CAROOT(env) = <<>>
       THEN /\ Finish(ErrNoCAROOT)
            /\ UNCHANGED <<files, log>>
       ELSE \E ok \in BOOLEAN :
              IF ok
              THEN /\ files' = files \cup {CARootDir}
                   /\ log' = Append(log, <<"fs", "", "mkdir">>)
                   /\ Goto("loadCA")
              ELSE /\ UNCHANGED <<files, log>>
                   /\ Finish("ERROR: failed to create the CAROOT")
    /\ UNCHANGED <<env, trusted, flags, argv, args, puny, pool, runs, prevLog>>
    /\ UNCHANGED gateVars

\* Which part of Run's switch is entered.
RunSwitch(c) ==
    IF c.InstallMode THEN "install_system"
    ELSE IF c.UninstallMode THEN "uninstall_nss"
    ELSE "check"

\* loadCA: load the CA pair if it is on disk, generate and store it if not.
loadCA ==
    /\ pc = "loadCA"
    /\ IF {rootName, rootKeyName} \subseteq files
       THEN /\ log' = Append(log, <<"ca", "", "load">>)
            /\ files' = files
       ELSE /\ log' = Append(log, <<"ca", "", "generate">>)
            /\ files' = files \cup {rootName, rootKeyName}
    /\ m' = [m EXCEPT !.caCert = TRUE]
    /\ Goto(RunSwitch(m))
    /\ UNCHANGED <<env, trusted, flags, argv, args, puny, pool, runs, prevLog>>
    /\ UNCHANGED gateVars

----------------------------------------------------------------------------
(* The trust stores.  Log entries are <<kind, store, detail>>: "check",     *)
(* "install" and "uninstall" are operations on a store's backend, "log" is  *)
(* a line written to the log, "ret" the value a step returned to Run.       *)

B(b) == IF b THEN "true" ELSE "false"

If(c, s) == IF c THEN s ELSE <<>>

\* checkPlatform that never takes the verdict of Verify for a success.
checkPlatformNeverVerified(c, p) == c.ignoreCheckFailure

\* checkPlatform: c is the mkcert value, p whether caCert verifies against
\* the system pool this process loaded.
checkPlatform(c, p) == IF c.ignoreCheckFailure THEN TRUE ELSE p

\* checkNSS and checkJava look the CA up in the store itself.
checkNSS == trusted["nss"]
checkJava == trusted["java"]

\* The order in which install() goes through the stores, with two swapped.
installNextSwapped(store) ==
    CASE store = "system" -> "install_java"
      [] store = "java" -> "install_nss"
      [] store = "nss" -> "install_end"

\* The order in which install() goes through the stores.
installNext(store) ==
    CASE store = "system" -> "install_nss"
      [] store = "nss" -> "install_java"
      [] store = "java" -> "install_end"

\* Run after install() has returned: len(args) == 0 ends the run.
afterInstall(a) == IF Len(a) = 0 THEN "return" ELSE "issue"

InstallReturns ==
    IF afterInstall(args) = "return" THEN Finish("nil") ELSE Goto("issue")

\* The system part of install() raising the flag whenever the store is
\* enabled, installed now or not.
install_systemFlagAlways ==
    /\ pc = "install_system"
    /\ IF storeEnabled(env.TRUST_STORES, "system")
       THEN /\ m' = [m EXCEPT !.ignoreCheckFailure = TRUE]
            /\ IF checkPlatform(m, pool)
               THEN /\ log' = log \o << <<"check", "system", "true">>,
                                        <<"log", "system", "already">> >>
                    /\ UNCHANGED trusted
                    /\ Goto(installNext("system"))
               ELSE \E ok \in BOOLEAN :
                      IF ok
                      THEN /\ trusted' = [trusted EXCEPT !["system"] = TRUE]
                           /\ log' = log \o << <<"check", "system", "false">>,
                                               <<"install", "system", "ok">>,
                                               <<"log", "system", "now">> >>
                           /\ Goto(installNext("system"))
                      ELSE /\ log' = log \o << <<"check", "system", "false">>,
                                               <<"install", "system", "err">>,
                                               <<"ret", "install", "err">> >>
                           /\ UNCHANGED trusted
                           /\ InstallReturns
       ELSE /\ UNCHANGED <<trusted, m, log>>
            /\ Goto(installNext("system"))
    /\ UNCHANGED <<env, files, flags, argv, args, puny, pool, runs, prevLog>>
    /\ UNCHANGED gateVars

install_system ==
    /\ pc = "install_system"
    /\ IF storeEnabled(env.TRUST_STORES, "system")
       THEN IF checkPlatform(m, pool)
            THEN /\ log' = log \o << <<"check", "system", "true">>,
                                     <<"log", "system", "already">> >>
                 /\ UNCHANGED <<trusted, m>>
                 /\ Goto(installNext("system"))
            ELSE \E ok \in BOOLEAN :
                   IF ok
                   THEN /\ trusted' = [trusted EXCEPT !["system"] = TRUE]
                        /\ log' = log \o << <<"check", "system", "false">>,
                                            <<"install", "system", "ok">>,
                                            <<"log", "system", "now">> >>
                        /\ m' = [m EXCEPT !.ignoreCheckFailure = TRUE]
                        /\ Goto(installNext("system"))
                   ELSE /\ log' = log \o << <<"check", "system", "false">>,
                                            <<"install", "system", "err">>,
                                            <<"ret", "install", "err">> >>
                        /\ UNCHANGED <<trusted, m>>
                        /\ InstallReturns
       ELSE /\ UNCHANGED <<trusted, m, log>>
            /\ Goto(installNext("system"))
    /\ UNCHANGED <<env, files, flags, argv, args, puny, pool, runs, prevLog>>
    /\ UNCHANGED gateVars

\* What is logged when the NSS install did not happen or did not succeed.
nssNotInstalled ==
    IF env.CertutilInstallHelp = "" THEN << <<"log", "nss", "note_unsupported">> >>
    ELSE IF ~env.hasCertutil THEN << <<"log", "nss", "warn_certutil">>,
                                    <<"log", "nss", "hint_certutil">> >>
    ELSE <<>>

install_nss ==
    /\ pc = "install_nss"
    /\ IF storeEnabled(env.TRUST_STORES, "nss") /\ env.hasNSS
       THEN IF checkNSS
            THEN /\ log' = log \o << <<"check", "nss", "true">>,
                                     <<"log", "nss", "already">> >>
                 /\ UNCHANGED trusted
            ELSE IF env.hasCertutil
                 THEN \E ok \in BOOLEAN :
                        IF ok
                        THEN /\ trusted' = [trusted EXCEPT !["nss"] = TRUE]
                             /\ log' = log \o << <<"check", "nss", "false">>,
                                                 <<"install", "nss", "ok">>,
                                                 <<"log", "nss", "now">> >>
                        ELSE /\ log' = log \o << <<"check", "nss", "false">>,
                                                 <<"install", "nss", "err">> >>
                                           \o nssNotInstalled
                             /\ UNCHANGED trusted
                 ELSE /\ log' = log \o << <<"check", "nss", "false">> >> \o nssNotInstalled
                      /\ UNCHANGED trusted
       ELSE UNCHANGED <<trusted, log>>
    /\ Goto(installNext("nss"))
    /\ UNCHANGED <<env, files, flags, argv, args, puny, m, pool, runs, prevLog>>
    /\ UNCHANGED gateVars

install_java ==
    /\ pc = "install_java"
    /\ IF storeEnabled(env.TRUST_STORES, "java") /\ env.hasJava
       THEN IF checkJava
            THEN /\ log' = log \o << <<"check", "java", "true">>,
                                     <<"log", "java", "already">> >>
                 /\ UNCHANGED trusted
            ELSE IF env.hasKeytool
                 THEN \E ok \in BOOLEAN :
                        /\ trusted' = [trusted EXCEPT !["java"] = ok]
                        /\ log' = log \o << <<"check", "java", "false">>,
                                            <<"install", "java", IF ok THEN "ok" ELSE "err">>,
                                            <<"log", "java", "now">> >>
                 ELSE /\ log' = log \o << <<"check", "java", "false">>,
                                          <<"log", "java", "warn_keytool">> >>
                      /\ UNCHANGED trusted
       ELSE UNCHANGED <<trusted, log>>
    /\ Goto(installNext("java"))
    /\ UNCHANGED <<env, files, flags, argv, args, puny, m, pool, runs, prevLog>>
    /\ UNCHANGED gateVars

\* The end of install(): the closing blank line, return nil.
install_end ==
    /\ pc = "install_end"
    /\ log' = log \o << <<"log", "", "blank">>, <<"ret", "install", "nil">> >>
    /\ InstallReturns
    /\ UNCHANGED <<env, trusted, files, flags, argv, args, puny, m, pool, runs, prevLog>>
    /\ UNCHANGED gateVars

----------------------------------------------------------------------------
(* uninstall(): NSS, then Java, then the system store and the closing line. *)

\* Run after uninstall() has returned, fallen through to the issuing part.
afterUninstallFallThrough(a) == IF Len(a) = 0 THEN "return" ELSE "issue"

\* Run after uninstall() has returned: return nil, whatever the arguments.
afterUninstall(a) == "return"

UninstallReturns ==
    IF afterUninstall(args) = "return" THEN Finish("nil") ELSE Goto("issue")

uninstall_nss ==
    /\ pc = "uninstall_nss"
    /\ IF storeEnabled(env.TRUST_STORES, "nss") /\ env.hasNSS
       THEN IF env.hasCertutil
            THEN \E ok \in BOOLEAN :
                   /\ trusted' = [trusted EXCEPT !["nss"] = IF ok THEN FALSE ELSE @]
                   /\ log' = Append(log, <<"uninstall", "nss", IF ok THEN "ok" ELSE "err">>)
            ELSE /\ log' = log \o If(env.CertutilInstallHelp # "",
                                     << <<"log", "", "blank">>,
                                        <<"log", "nss", "warn_certutil">>,
                                        <<"log", "nss", "hint_certutil">>,
                                        <<"log", "", "blank">> >>)
                 /\ UNCHANGED trusted
       ELSE UNCHANGED <<trusted, log>>
    /\ Goto("uninstall_java")
    /\ UNCHANGED <<env, files, flags, argv, args, puny, m, pool, runs, prevLog>>
    /\ UNCHANGED gateVars

uninstall_java ==
    /\ pc = "uninstall_java"
    /\ IF storeEnabled(env.TRUST_STORES, "java") /\ env.hasJava
       THEN IF env.hasKeytool
            THEN \E ok \in BOOLEAN :
                   /\ trusted' = [trusted EXCEPT !["java"] = IF ok THEN FALSE ELSE @]
                   /\ log' = Append(log, <<"uninstall", "java", IF ok THEN "ok" ELSE "err">>)
            ELSE /\ log' = log \o << <<"log", "", "blank">>,
                                     <<"log", "java", "warn_keytool">>,
                                     <<"log", "", "blank">> >>
                 /\ UNCHANGED trusted
       ELSE UNCHANGED <<trusted, log>>
    /\ Goto("uninstall_system")
    /\ UNCHANGED <<env, files, flags, argv, args, puny, m, pool, runs, prevLog>>
    /\ UNCHANGED gateVars

\* The last part of uninstall() taking the CA files away with the trust.
uninstall_systemRemovesCA ==
    /\ pc = "uninstall_system"
    /\ trusted' = [trusted EXCEPT !["system"] = FALSE]
    /\ files' = files \ {rootName, rootKeyName}
    /\ log' = log \o << <<"uninstall", "system", "ok">>,
                        <<"log", "system", "now_uninstalled">>,
                        <<"log", "", "blank">>,
                        <<"ret", "uninstall", "nil">> >>
    /\ UninstallReturns
    /\ UNCHANGED <<env, flags, argv, args, puny, m, pool, runs, prevLog>>
    /\ UNCHANGED gateVars

uninstall_system ==
    /\ pc = "uninstall_system"
    /\ IF storeEnabled(env.TRUST_STORES, "system")
       THEN \E ok \in BOOLEAN :
              IF ok
              THEN /\ trusted' = [trusted EXCEPT !["system"] = FALSE]
                   /\ log' = log \o << <<"uninstall", "system", "ok">>,
                                       <<"log", "system", "now_uninstalled">>,
                                       <<"log", "", "blank">>,
                                       <<"ret", "uninstall", "nil">> >>
              ELSE /\ log' = log \o << <<"uninstall", "system", "err">>,
                                       <<"ret", "uninstall", "err">> >>
                   /\ UNCHANGED trusted
       ELSE /\ log' = log \o If(storeEnabled(env.TRUST_STORES, "nss") /\ env.hasCertutil,
                                << <<"log", "nss", "now_uninstalled">>,
                                   <<"log", "", "blank">> >>)
                          \o << <<"ret", "uninstall", "nil">> >>
            /\ UNCHANGED trusted
    /\ UninstallReturns
    /\ UNCHANGED <<env, files, flags, argv, args, puny, m, pool, runs, prevLog>>
    /\ UNCHANGED gateVars

----------------------------------------------------------------------------
(* The default part of Run's switch: the trust checks before issuing.       *)

checkSystemWarns == storeEnabled(env.TRUST_STORES, "system") /\ ~checkPlatform(m, pool)
checkNSSConsulted ==
    storeEnabled(env.TRUST_STORES, "nss") /\ env.hasNSS /\ env.CertutilInstallHelp # ""
checkJavaConsulted == storeEnabled(env.TRUST_STORES, "java") /\ env.hasJava

check ==
    /\ pc = "check"
    /\ log' = log
         \o If(storeEnabled(env.TRUST_STORES, "system"),
               << <<"check", "system", B(checkPlatform(m, pool))>> >>)
         \o If(checkSystemWarns, << <<"log", "system", "not_installed">> >>)
         \o If(checkNSSConsulted, << <<"check", "nss", B(checkNSS)>> >>)
         \o If(checkNSSConsulted /\ ~checkNSS, << <<"log", "nss", "not_installed">> >>)
         \o If(checkJavaConsulted, << <<"check", "java", B(checkJava)>> >>)
         \o If(checkJavaConsulted /\ ~checkJava, << <<"log", "java", "not_installed">> >>)
         \o If(\/ checkSystemWarns
               \/ checkNSSConsulted /\ ~checkNSS
               \/ checkJavaConsulted /\ ~checkJava,
               << <<"log", "", "run_install">> >>)
    /\ Goto("issue")
    /\ UNCHANGED <<env, trusted, files, flags, argv, args, puny, m, pool, runs, prevLog>>
    /\ UNCHANGED gateVars

----------------------------------------------------------------------------
(* The end of Run: issuing from the CSR, or classifying the arguments and   *)
(* issuing from them.                                                       *)

Digits == {"0", "1", "2", "3", "4", "5", "6", "7", "8", "9"}

DigitVal(c) ==
    CASE c = "0" -> 0 [] c = "1" -> 1 [] c = "2" -> 2 [] c = "3" -> 3 [] c = "4" -> 4
      [] c = "5" -> 5 [] c = "6" -> 6 [] c = "7" -> 7 [] c = "8" -> 8 [] c = "9" -> 9

RECURSIVE DecVal(_)
DecVal(f) == IF Len(f) = 0 THEN 0 ELSE 10 * DecVal(SubSeq(f, 1, Len(f) - 1)) + DigitVal(f[Len(f)])

\* A field of a dotted-decimal address: one to three digits, no leading
\* zero, at most 255.
DecOctet(f) ==
    /\ Len(f) \in 1..3
    /\ \A i \in 1..Len(f) : f[i] \in Digits
    /\ Len(f) > 1 => f[1] # "0"
    /\ DecVal(f) <= 255

IsIPv4(name) ==
    LET fs == SplitOn(name, ".") IN Len(fs) = 4 /\ \A i \in 1..4 : DecOctet(fs[i])

\* The names with a colon, an "@" or a scheme that are used, by what the
\* library makes of them.
IPLiterals == {IPv6Name}
EmailAddresses == {EmailName}
URIs == {URIName}

Has(name, c) == \E i \in 1..Len(name) : name[i] = c

\* net.ParseIP(name) != nil
ParseIP(name) == IsIPv4(name) \/ (Has(name, ":") /\ name \in IPLiterals)

\* mail.ParseAddress(name) succeeds and gives back name itself
ParseAddressExact(name) == Has(name, "@") /\ name \in EmailAddresses

\* url.Parse(name) succeeds with a scheme and a host
ParseURLSchemeHost(name) == Has(name, ":") /\ name \in URIs

NonASCII == {UUml}

\* idna.ToASCII fails on a label with the ACE prefix that does not decode.
ToASCIIFails(name) == name = BadACEName

\* idna.ToASCII: ASCII labels are left alone, others are punycode-encoded.
ToASCII(name) ==
    IF \A i \in 1..Len(name) : name[i] \notin NonASCII THEN name
    ELSE IF name = IDNName THEN IDNASCII
    ELSE name

Letters ==
    {"a", "b", "c", "d", "e", "f", "g", "h", "i", "j", "k", "l", "m",
     "n", "o", "p", "q", "r", "s", "t", "u", "v", "w", "x", "y", "z"}
UpperLetters ==
    {"A", "B", "C", "D", "E", "F", "G", "H", "I", "J", "K", "L", "M",
     "N", "O", "P", "Q", "R", "S", "T", "U", "V", "W", "X", "Y", "Z"}

\* [0-9a-z_-] and [0-9a-z._-] under (?i)
LabelChar(c) == c \in Digits \cup Letters \cup UpperLetters \cup {"_", "-"}
NameChar(c) == LabelChar(c) \/ c = "."

\* hostnameRegexp: (?i)^(\*\.)?[0-9a-z_-]([0-9a-z._-]*[0-9a-z_-])?$
hostnameRegexpMatch(name) ==
    LET rest == IF Len(name) >= 2 /\ name[1] = "*" /\ name[2] = "."
                THEN SubSeq(name, 3, Len(name)) ELSE name
    IN /\ Len(rest) >= 1
       /\ LabelChar(rest[1])
       /\ LabelChar(rest[Len(rest)])
       /\ \A i \in 1..Len(rest) : NameChar(rest[i])

ErrNotValidIDNA == "ERROR: not a valid hostname, IP, URL or email: idna"
ErrNotValid == "ERROR: not a valid hostname, IP, URL or email"

\* The loop with every argument treated as a hostname candidate.
RECURSIVE classifyFromNoSkip(_, _, _)
classifyFromNoSkip(a, i, p) ==
    IF i > Len(a) THEN [args |-> a, err |-> "nil", puny |-> p]
    ELSE IF ToASCIIFails(a[i])
         THEN [args |-> a, err |-> ErrNotValidIDNA, puny |-> Append(p, a[i])]
    ELSE LET b == [a EXCEPT ![i] = ToASCII(a[i])] IN
         IF ~hostnameRegexpMatch(b[i])
         THEN [args |-> b, err |-> ErrNotValid, puny |-> Append(p, a[i])]
         ELSE classifyFromNoSkip(b, i + 1, Append(p, a[i]))

\* The loop over args from index i on, p being the names passed to
\* idna.ToASCII so far: the arguments as rewritten, the error returned
\* ("nil": none) and the names passed to idna.ToASCII.
RECURSIVE classifyFrom(_, _, _)
classifyFrom(a, i, p) ==
    IF i > Len(a) THEN [args |-> a, err |-> "nil", puny |-> p]
    ELSE IF ParseIP(a[i]) THEN classifyFrom(a, i + 1, p)
    ELSE IF ParseAddressExact(a[i]) THEN classifyFrom(a, i + 1, p)
    ELSE IF ParseURLSchemeHost(a[i]) THEN classifyFrom(a, i + 1, p)
    ELSE IF ToASCIIFails(a[i])
         THEN [args |-> a, err |-> ErrNotValidIDNA, puny |-> Append(p, a[i])]
    ELSE LET b == [a EXCEPT ![i] = ToASCII(a[i])] IN
         IF ~hostnameRegexpMatch(b[i])
         THEN [args |-> b, err |-> ErrNotValid, puny |-> Append(p, a[i])]
         ELSE classifyFrom(b, i + 1, Append(p, a[i]))

CertOut == "leaf.pem"
KeyOut == "leaf-key.pem"
P12Out == "leaf.p12"

\* The files makeCert writes.
makeCertFiles(c) == IF c.PKCS12 THEN {P12Out} ELSE {CertOut, KeyOut}

issue ==
    /\ pc = "issue"
    /\ IF m.CSRPath # ""
       THEN \E ok \in BOOLEAN :
              /\ files' = IF ok THEN files \cup {CertOut} ELSE files
              /\ log' = Append(log, <<"issue", "csr", IF ok THEN "ok" ELSE "err">>)
              /\ args' = args
              /\ puny' = puny
              /\ Finish("nil")
       ELSE LET r == classifyFrom(args, 1, <<>>) IN
            /\ args' = r.args
            /\ puny' = r.puny
            /\ IF r.err # "nil"
               THEN /\ log' = Append(log, <<"classify", "", "err">>)
                    /\ files' = files
                    /\ Finish(r.err)
               ELSE IF Len(r.args) = 0
               THEN /\ log' = log \o << <<"classify", "", "ok">>,
                                        <<"issue", "subjects", "empty">> >>
                    /\ files' = files
                    /\ Finish("ERROR: no subjects given")
               ELSE \E ok \in BOOLEAN :
                      /\ files' = IF ok THEN files \cup makeCertFiles(m) ELSE files
                      /\ log' = log \o << <<"classify", "", "ok">>,
                                          <<"issue", "subjects", IF ok THEN "ok" ELSE "err">> >>
                      /\ Finish(IF ok THEN "nil" ELSE "ERROR: failed to issue the certificate")
    /\ UNCHANGED <<env, trusted, flags, argv, m, pool, runs, prevLog>>
    /\ UNCHANGED gateVars

----------------------------------------------------------------------------
(* commandWithSudo, the gate every privileged command goes through, called  *)
(* by any number of goroutines, and the sync.Once behind its warning.       *)

MaxCallers == 2
MaxCalls == 3

Callers == 1..MaxCallers

\* The zero sync.Once: done is clear and nobody holds the mutex (0).
ZeroOnce == [done |-> FALSE, m |-> 0]

GateInit(P) ==
    /\ priv \in P
    /\ sudoWarningOnce = ZeroOnce
    /\ gpc = [t \in Callers |-> "idle"]
    /\ gsaw = [t \in Callers |-> FALSE]
    /\ gres = [t \in Callers |-> "none"]
    /\ warned = <<>>
    /\ calls = 0

\* The call returns the command c.
Return(t, c) ==
    /\ gres' = [gres EXCEPT ![t] = c]
    /\ gpc' = [gpc EXCEPT ![t] = "idle"]

commandWithSudo_call(t) ==
    /\ gpc[t] = "idle"
    /\ calls < MaxCalls
    /\ calls' = calls + 1
    /\ gpc' = [gpc EXCEPT ![t] = "uid"]
    /\ gres' = [gres EXCEPT ![t] = "none"]
    /\ UNCHANGED <<priv, sudoWarningOnce, gsaw, warned>>
    /\ UNCHANGED procVars

\* user.Current(): uid 0 runs the command directly.
commandWithSudo_uid(t) ==
    /\ gpc[t] = "uid"
    /\ IF priv.uid0
       THEN Return(t, "direct")
       ELSE /\ gpc' = [gpc EXCEPT ![t] = "lookup"]
            /\ gres' = gres
    /\ UNCHANGED <<priv, sudoWarningOnce, gsaw, warned, calls>>
    /\ UNCHANGED procVars

\* binaryExists("sudo"): with sudo the command is wrapped, without it the
\* warning is due.
commandWithSudo_lookup(t) ==
    /\ gpc[t] = "lookup"
    /\ gsaw' = [gsaw EXCEPT ![t] = priv.sudo]
    /\ IF priv.sudo
       THEN Return(t, "sudo")
       ELSE /\ gpc' = [gpc EXCEPT ![t] = "Do"]
            /\ gres' = gres
    /\ UNCHANGED <<priv, sudoWarningOnce, warned, calls>>
    /\ UNCHANGED procVars

\* sudoWarningOnce.Do, fast path: done is read without the mutex.
Do_fast(t) ==
    /\ gpc[t] = "Do"
    /\ IF sudoWarningOnce.done
       THEN Return(t, "plain")
       ELSE /\ gpc' = [gpc EXCEPT ![t] = "lock"]
            /\ gres' = gres
    /\ UNCHANGED <<priv, sudoWarningOnce, gsaw, warned, calls>>
    /\ UNCHANGED procVars

\* The slow path entered without looking at done again.
Do_lockNoRecheck(t) ==
    /\ gpc[t] = "lock"
    /\ sudoWarningOnce.m = 0
    /\ sudoWarningOnce' = [sudoWarningOnce EXCEPT !.m = t]
    /\ gpc' = [gpc EXCEPT ![t] = "f"]
    /\ gres' = gres
    /\ UNCHANGED <<priv, gsaw, warned, calls>>
    /\ UNCHANGED procVars

\* sudoWarningOnce.Do, slow path: the mutex is taken and done read again.
Do_lock(t) ==
    /\ gpc[t] = "lock"
    /\ sudoWarningOnce.m = 0
    /\ IF sudoWarningOnce.done
       THEN /\ Return(t, "plain")
            /\ UNCHANGED sudoWarningOnce
       ELSE /\ sudoWarningOnce' = [sudoWarningOnce EXCEPT !.m = t]
            /\ gpc' = [gpc EXCEPT ![t] = "f"]
            /\ gres' = gres
    /\ UNCHANGED <<priv, gsaw, warned, calls>>
    /\ UNCHANGED procVars

\* The function given to Do: log.Println of the warning.
Do_f(t) ==
    /\ gpc[t] = "f"
    /\ warned' = Append(warned, [by |-> t, uid0 |-> priv.uid0, sudo |-> gsaw[t]])
    /\ gpc' = [gpc EXCEPT ![t] = "store"]
    /\ UNCHANGED <<priv, sudoWarningOnce, gsaw, gres, calls>>
    /\ UNCHANGED procVars

\* The deferred calls of Do: done is stored and the mutex released; then
\* commandWithSudo returns the command as it is.
Do_store(t) ==
    /\ gpc[t] = "store"
    /\ sudoWarningOnce' = [done |-> TRUE, m |-> 0]
    /\ Return(t, "plain")
    /\ UNCHANGED <<priv, gsaw, warned, calls>>
    /\ UNCHANGED procVars

\* sudo is installed or removed while the process runs.
PathChange ==
    /\ priv' = [priv EXCEPT !.sudo = ~@]
    /\ UNCHANGED <<sudoWarningOnce, gpc, gsaw, gres, warned, calls>>
    /\ UNCHANGED procVars

----------------------------------------------------------------------------
(* Environments, invocations and the specifications.                        *)

InstallHelp == "apt install libnss3-tools"

HomeDir == <<"home", "dev">>

\* The variables CAROOT() reads: a Unix with HOME set, and one without.
PathEnvs ==
    {[GOOS |-> "linux", CAROOT |-> <<>>, XDG_DATA_HOME |-> <<>>,
      HOME |-> h, LocalAppData |-> <<>>] : h \in {HomeDir, <<>>}}

\* Values of TRUST_STORES: unset, lists of store names, a list with an empty
\* field, an unknown name, and two names run together without a comma.
TrustStoresValues ==
    {<<>>, <<"system">>, <<"nss">>, <<"java">>,
     <<"system", ",", "nss">>, <<"nss", ",", "java">>, <<"java", ",", "system">>,
     <<"system", ",", "nss", ",", "java">>,
     <<"nss", ",">>, <<"firefox">>, <<"system", "nss">>}

Probes ==
    [hasNSS : BOOLEAN, hasJava : BOOLEAN, hasCertutil : BOOLEAN,
     hasKeytool : BOOLEAN, CertutilInstallHelp : {"", InstallHelp}]

MkEnv(ts, pr, pa) ==
    [TRUST_STORES |-> ts, hasNSS |-> pr.hasNSS, hasJava |-> pr.hasJava,
     hasCertutil |-> pr.hasCertutil, hasKeytool |-> pr.hasKeytool,
     CertutilInstallHelp |-> pr.CertutilInstallHelp,
     GOOS |-> pa.GOOS, CAROOT |-> pa.CAROOT, XDG_DATA_HOME |-> pa.XDG_DATA_HOME,
     HOME |-> pa.HOME, LocalAppData |-> pa.LocalAppData]

\* Every tool present or every tool missing.
FewProbes ==
    {[hasNSS |-> b, hasJava |-> b, hasCertutil |-> b, hasKeytool |-> b,
      CertutilInstallHelp |-> InstallHelp] : b \in BOOLEAN}

CLIEnvs == {MkEnv(ts, pr, pa) : ts \in {<<>>, <<"nss">>}, pr \in FewProbes, pa \in PathEnvs}

StoreEnvs ==
    {MkEnv(ts, pr, pa) : ts \in TrustStoresValues, pr \in Probes,
                         pa \in {q \in PathEnvs : q.HOME # <<>>}}

NoFlags ==
    [install |-> FALSE, uninstall |-> FALSE, pkcs12 |-> FALSE, ecdsa |-> FALSE,
     client |-> FALSE, help |-> FALSE, version |-> FALSE, caroot |-> FALSE, csr |-> ""]

\* Invocations that only choose the mode.
ModeFlags ==
    {NoFlags, [NoFlags EXCEPT !.install = TRUE], [NoFlags EXCEPT !.uninstall = TRUE]}

\* The CA material of an earlier run.
CAFiles == {CARootDir, rootName, rootKeyName}

InitWith(E, T, F) ==
    /\ env \in E
    /\ trusted \in T
    /\ files \in F
    /\ pc = "idle"
    /\ flags = NoFlags
    /\ argv = <<>>
    /\ args = <<>>
    /\ puny = <<>>
    /\ m = ZeroConfig
    /\ pool = FALSE
    /\ log = <<>>
    /\ exit = NoExit
    /\ runs = 0
    /\ prevLog = <<>>
    /\ GateInit({[uid0 |-> FALSE, sudo |-> TRUE]})

Steps ==
    \/ Run_begin
    \/ loadCA
    \/ install_system
    \/ install_nss
    \/ install_java
    \/ install_end
    \/ uninstall_nss
    \/ uninstall_java
    \/ uninstall_system
    \/ check
    \/ issue

\* One process with any invocation, on a machine with every tool or none,
\* fresh or left behind by an earlier Install.
Init ==
    InitWith(CLIEnvs, {[s \in Stores |-> b] : b \in BOOLEAN}, {{}, CAFiles})
Start == runs = 0 /\ \E f \in Flags, a \in SeqsUpTo(Subjects, MaxArgs) : main(f, a)
Next == Start \/ Steps
Spec == Init /\ [][Next]_vars

\* Processes run one after another with mode-only invocations, on every
\* machine, starting fresh.
InitStores == InitWith(StoreEnvs, {[s \in Stores |-> FALSE]}, {{}})
StartMode ==
    runs < MaxRuns /\ \E f \in ModeFlags, a \in {<<>>, <<HostName>>} : main(f, a)
NextStores == StartMode \/ Steps
SpecStores == InitStores /\ [][NextStores]_vars

\* Every way the variables CAROOT() reads can be set or unset, on each of
\* the systems it tells apart.
AllPathEnvs ==
    [GOOS : {"linux", "darwin", "windows"}, CAROOT : {<<>>, <<"ca">>},
     XDG_DATA_HOME : {<<>>, <<"xdg">>}, HOME : {<<>>, HomeDir},
     LocalAppData : {<<>>, <<"AppData">>}]

AllTools ==
    [hasNSS |-> TRUE, hasJava |-> TRUE, hasCertutil |-> TRUE, hasKeytool |-> TRUE,
     CertutilInstallHelp |-> InstallHelp]

\* One process with a mode-only invocation, on a fresh machine with every
\* tool, under every setting of the variables CAROOT() reads.
InitCAROOT ==
    InitWith({MkEnv(<<>>, AllTools, pa) : pa \in AllPathEnvs}, {[s \in Stores |-> FALSE]}, {{}})
StartCAROOT == runs = 0 /\ \E f \in ModeFlags, a \in {<<>>, <<HostName>>} : main(f, a)
NextCAROOT == StartCAROOT \/ Steps
SpecCAROOT == InitCAROOT /\ [][NextCAROOT]_vars

MaxSubjects == 2

\* Arguments of every class the loop in Run tells apart, with names that
\* idna.ToASCII rewrites or refuses and one the hostname grammar rejects.
ClassifySubjects ==
    {IPv4Name, IPv6Name, EmailName, URIName, HostName, IDNName, BadACEName, BadName}

\* One process in any mode with up to MaxSubjects arguments, on a fresh
\* machine with every tool.
InitClassify ==
    InitWith({MkEnv(<<>>, AllTools, pa) : pa \in {q \in PathEnvs : q.HOME # <<>>}},
             {[s \in Stores |-> FALSE]}, {{}})
StartClassify ==
    runs = 0 /\ \E f \in ModeFlags, a \in SeqsUpTo(ClassifySubjects, MaxSubjects) : main(f, a)
NextClassify == StartClassify \/ Steps
SpecClassify == InitClassify /\ [][NextClassify]_vars

MaxNameLen == 4

\* The characters hostname candidates are made of: a lower-case and an
\* upper-case letter, a digit, the hyphen, the underscore, the dot and the
\* asterisk.
HostChars == {"a", "Z", "1", "-", "_", ".", "*"}

\* One process issuing for a single argument, any string over HostChars of
\* up to MaxNameLen characters, on a fresh machine with every tool.
InitHostname ==
    InitWith({MkEnv(<<>>, AllTools, pa) : pa \in {q \in PathEnvs : q.HOME # <<>>}},
             {[s \in Stores |-> FALSE]}, {{}})
StartHostname ==
    runs = 0 /\ \E name \in SeqsUpTo(HostChars, MaxNameLen) : main(NoFlags, <<name>>)
NextHostname == StartHostname \/ Run_begin \/ loadCA \/ check \/ issue
SpecHostname == InitHostname /\ [][NextHostname]_vars

\* One process whose goroutines call commandWithSudo, as root or not, with
\* sudo on PATH or not at the start.
InitSudo ==
    /\ env \in {MkEnv(<<>>, AllTools, pa) : pa \in {q \in PathEnvs : q.HOME # <<>>}}
    /\ trusted = [s \in Stores |-> FALSE]
    /\ files = {}
    /\ pc = "idle"
    /\ flags = NoFlags
    /\ argv = <<>>
    /\ args = <<>>
    /\ puny = <<>>
    /\ m = ZeroConfig
    /\ pool = FALSE
    /\ log = <<>>
    /\ exit = NoExit
    /\ runs = 0
    /\ prevLog = <<>>
    /\ GateInit([uid0 : BOOLEAN, sudo : BOOLEAN])
NextSudo ==
    \/ \E t \in Callers :
         \/ commandWithSudo_call(t)
         \/ commandWithSudo_uid(t)
         \/ commandWithSudo_lookup(t)
         \/ Do_fast(t)
         \/ Do_lock(t)
         \/ Do_f(t)
         \/ Do_store(t)
    \/ PathChange
SpecSudo == InitSudo /\ [][NextSudo]_vars

----------------------------------------------------------------------------
(* Properties.                                                              *)

Events(l) == {l[i] : i \in 1..Len(l)}

\* What a run did beyond printing: created the CAROOT directory, loaded or
\* generated the CA, touched a trust-store backend, classified or issued.
SideEffects(l) ==
    {e \in Events(l) : e[1] \in {"fs", "ca", "check", "install", "uninstall", "classify", "issue"}}

Issuance(l) == {e \in Events(l) : e[1] \in {"classify", "issue"}}

\* The option combinations that exclude one another.
Conflict(f, a) ==
    \/ f.install /\ f.uninstall
    \/ f.csr # "" /\ (f.ecdsa \/ f.client \/ f.pkcs12)
    \/ f.csr # "" /\ Len(a) > 0
    \/ f.caroot /\ (f.install \/ f.uninstall)

\* C1 as stated: every mutually exclusive combination of options is rejected
\* as a configuration error, with no side effect.
C1_Original ==
    (runs > 0 /\ Conflict(flags, args)) =>
        /\ pc = "idle" /\ exit.code = 1 /\ Fatal(exit.out)
        /\ SideEffects(log) = {}

\* C1 amended: a mutually exclusive combination of options never has a side
\* effect and never reaches Run; it is rejected as a configuration error
\* unless -help or -version is given, or -CAROOT without -install/-uninstall,
\* in which case main prints what was asked for and returns without error.
C1_Amended ==
    (runs > 0 /\ Conflict(flags, args)) =>
        /\ pc = "idle"
        /\ m = ZeroConfig
        /\ SideEffects(log) = {}
        /\ IF flags.help THEN exit = [code |-> 0, out |-> "help"]
           ELSE IF flags.version THEN exit = [code |-> 0, out |-> "version"]
           ELSE IF flags.caroot /\ ~(flags.install \/ flags.uninstall)
                THEN exit = [code |-> 0, out |-> "caroot"]
           ELSE exit.code = 1 /\ Fatal(exit.out)

\* A CSR given together with a positional argument has been rejected.
C1_Witness ==
    /\ runs = 1 /\ pc = "idle"
    /\ flags.csr # "" /\ Len(args) > 0
    /\ ~flags.help /\ ~flags.version /\ ~flags.caroot
    /\ ~(flags.install /\ flags.uninstall)
    /\ ~(flags.ecdsa \/ flags.client \/ flags.pkcs12)
    /\ exit = [code |-> 1, out |-> "fatal_csr_args"]
    /\ files = {}

\* C2: in a run with Install, once the install step has returned without
\* error the run goes on to issue from the subjects when there are positional arguments,
\* to issue from the CSR when there is a CSR and no argument, and ends
\* without issuing when there is neither.
C2_InstallThenIssue ==
    (pc = "idle" /\ m.InstallMode /\ <<"ret", "install", "nil">> \in Events(log)) =>
        /\ Len(args) > 0 => \E e \in Events(log) : e[1] = "classify"
        /\ (Len(args) = 0 /\ m.CSRPath # "") => \E e \in Events(log) : e[1] = "issue" /\ e[2] = "csr"
        /\ (Len(args) = 0 /\ m.CSRPath = "") => Issuance(log) = {}

\* C3: in a run in Uninstall mode nothing is classified or issued, and the
\* run returns without error as soon as the uninstall step has returned.
C3_NoIssuanceAfterUninstall ==
    m.UninstallMode =>
        /\ pc # "issue"
        /\ Issuance(log) = {}
        /\ (\E e \in Events(log) : e[1] = "ret" /\ e[2] = "uninstall")
              => (pc = "idle" /\ exit = [code |-> 0, out |-> "nil"])

\* An Uninstall run given a positional argument has ended.
C3_Witness ==
    /\ pc = "idle" /\ m.UninstallMode /\ Len(args) > 0
    /\ \E e \in Events(log) : e[1] = "uninstall" /\ e[2] = "system"
    /\ exit = [code |-> 0, out |-> "nil"]

\* An invocation that gives a CSR and nothing else.
CSROnly ==
    /\ runs > 0 /\ flags.csr # "" /\ Len(args) = 0
    /\ flags = [NoFlags EXCEPT !.csr = flags.csr]

\* C4: a CSR-only invocation is not answered with the usage message, never
\* classifies subjects, and when it ends without error it has issued from
\* the CSR and written no key file.
C4_CSROnlyIssues ==
    (CSROnly /\ pc = "idle") =>
        /\ exit.out # "usage"
        /\ \A e \in Events(log) : e[1] # "classify"
        /\ exit.code = 0 => \E e \in Events(log) : e[1] = "issue" /\ e[2] = "csr"

\* An invocation without subjects, CSR or mode.
Empty == runs > 0 /\ flags = NoFlags /\ Len(args) = 0

\* C5: an invocation with no subject and no CSR (and no Install/Uninstall)
\* creates no CAROOT directory, loads or generates no CA and never calls the
\* issuer with an empty subject list.
C5_EmptyIsUsageError ==
    Empty =>
        /\ \A e \in Events(log) : e[1] \notin {"fs", "ca"}
        /\ \A e \in Events(log) : ~(e[1] = "issue" /\ e[2] = "subjects")

----------------------------------------------------------------------------
(* Properties of the trust-store steps.                                     *)

StoreOps == {"check", "install", "uninstall"}

\* The events of log l that name store s.
Of(l, s) == {e \in Events(l) : e[2] = s /\ e[1] \in StoreOps \cup {"log"}}

\* C6: when an Install run follows an Install run on the same machine, it
\* performs no install operation on any store whose install succeeded in the
\* first run, and once its install step has returned it has logged "already
\* installed" for each of them.
C6_InstallIdempotent ==
    \A s \in Stores :
        (m.InstallMode /\ <<"install", s, "ok">> \in Events(prevLog)) =>
            /\ \A e \in Events(log) : ~(e[1] = "install" /\ e[2] = s)
            /\ (\E e \in Events(log) : e[1] = "ret" /\ e[2] = "install")
                  => <<"log", s, "already">> \in Events(log)

\* A second Install run has ended after a first one installed all stores.
C6_Witness ==
    /\ pc = "idle" /\ m.InstallMode /\ runs = 2
    /\ \A s \in Stores : <<"install", s, "ok">> \in Events(prevLog)
    /\ \A s \in Stores : <<"log", s, "already">> \in Events(log)

Processed(l, s) == Of(l, s) # {}

Consulted(s) ==
    /\ storeEnabled(env.TRUST_STORES, s)
    /\ s = "nss" => env.hasNSS
    /\ s = "java" => env.hasJava

\* C7: a failing backend stops only itself: after the system-store install
\* has failed NSS and Java are still processed when enabled and available,
\* and after a failing NSS or Java uninstall the later stores are processed.
C7_FailureIsPerBackend ==
    /\ (pc = "idle" /\ m.InstallMode /\ <<"install", "system", "err">> \in Events(log)) =>
          \A s \in {"nss", "java"} : Consulted(s) => Processed(log, s)
    /\ (pc = "idle" /\ m.UninstallMode /\ <<"uninstall", "nss", "err">> \in Events(log)) =>
          \A s \in {"java", "system"} :
              (Consulted(s) /\ (s = "java" => env.hasKeytool)) => Processed(log, s)

\* C8: a run whose install or uninstall step returned an error does not
\* end with success.
C8_FailedStepFailsRun ==
    (pc = "idle" /\ \E e \in Events(log) : e[1] = "ret" /\ e[3] = "err") => exit.code # 0

Rank(s) == CASE s = "system" -> 1 [] s = "nss" -> 2 [] s = "java" -> 3

UninstallRank(s) == CASE s = "nss" -> 1 [] s = "java" -> 2 [] s = "system" -> 3

Named(e) == e[1] \in StoreOps \cup {"log"} /\ e[2] \in Stores

\* C9 as stated: in the Install step and in the Uninstall step no operation
\* or log line of a later store in the order system, NSS, Java precedes one
\* of an earlier store.
C9_Original ==
    (m.InstallMode \/ m.UninstallMode) =>
        \A i, j \in 1..Len(log) :
            (i < j /\ Named(log[i]) /\ Named(log[j])) => Rank(log[i][2]) <= Rank(log[j][2])

Closing(e) == e[1] = "log" /\ e[3] = "now_uninstalled"

\* C9 amended: the Install step goes through the stores in the order system,
\* NSS, Java; the Uninstall step goes through them in the order NSS, Java,
\* system, and its closing "now uninstalled" line (naming the system store,
\* or NSS when the system store is disabled) is the last line naming a store.
C9_Amended ==
    /\ m.InstallMode =>
          \A i, j \in 1..Len(log) :
              (i < j /\ Named(log[i]) /\ Named(log[j])) => Rank(log[i][2]) <= Rank(log[j][2])
    /\ m.UninstallMode =>
          \A i, j \in 1..Len(log) :
              (i < j /\ Named(log[i]) /\ Named(log[j])) =>
                  \/ Closing(log[j])
                  \/ ~Closing(log[i]) /\ UninstallRank(log[i][2]) <= UninstallRank(log[j][2])

\* An Uninstall run on all three stores has ended after an Install run that
\* installed all three.
C9_Witness ==
    /\ pc = "idle" /\ m.UninstallMode
    /\ \A s \in Stores : \E e \in Events(log) : e[1] = "uninstall" /\ e[2] = s
    /\ \A s \in Stores : <<"install", s, "ok">> \in Events(prevLog)

\* Whether name is in the enablement set TRUST_STORES denotes: the variable
\* is empty, or name is one of its comma-separated fields.
InEnablementSet(name) ==
    LET ts == env.TRUST_STORES IN
    \/ ts = <<>>
    \/ \E k \in 1..Len(ts) :
          /\ ts[k] = name
          /\ k = 1 \/ ts[k - 1] = ","
          /\ k = Len(ts) \/ ts[k + 1] = ","

Available(s) ==
    CASE s = "system" -> TRUE [] s = "nss" -> env.hasNSS [] s = "java" -> env.hasJava

\* C10: in every mode a store's check, install or uninstall operation is
\* invoked only if the store is in the enablement set (or the set is empty)
\* and its availability probe succeeded; the step that skips a store ends
\* without an error.
C10_OnlyEnabledAvailable ==
    /\ \A e \in Events(log) :
          e[1] \in StoreOps => (InEnablementSet(e[2]) /\ Available(e[2]))
    /\ \A e \in Events(log) :
          (e[1] = "ret" /\ e[3] = "err") => InEnablementSet("system")

\* An Install run has worked on NSS and skipped the disabled system store
\* and the unavailable Java store.
C10_Witness ==
    /\ pc = "idle" /\ m.InstallMode
    /\ ~InEnablementSet("system") /\ InEnablementSet("java") /\ ~env.hasJava
    /\ <<"install", "nss", "ok">> \in Events(log)
    /\ <<"ret", "install", "nil">> \in Events(log)

\* C11: when CAROOT resolves to the empty path, Run ends with the error
\* having created no directory, loaded or generated no CA, touched no trust
\* store and issued nothing; every step after the resolution, and every
\* side effect, happens with a non-empty CAROOT.
C11_EmptyCARootFailsFast ==
    /\ (runs > 0 /\ pc # "Run" /\ m.CAROOT = <<>>) =>
          /\ pc = "idle"
          /\ exit = [code |-> 1, out |-> ErrNoCAROOT]
          /\ log = <<>>
          /\ files = {}
          /\ \A s \in Stores : ~trusted[s]
    /\ (pc \notin {"idle", "Run"} \/ log # <<>> \/ files # {}) => m.CAROOT # <<>>

\* A Unix without HOME, XDG_DATA_HOME or CAROOT: an Install run has ended
\* with the error.
C11_Witness ==
    /\ pc = "idle" /\ runs > 0 /\ m.InstallMode
    /\ env.GOOS = "darwin" /\ env.HOME = <<>>
    /\ m.CAROOT = <<>> /\ exit.out = ErrNoCAROOT

ValidationError(e) == e \in {ErrNotValid, ErrNotValidIDNA}

\* C12: when Run returns the "not a valid hostname, IP, URL or email" error,
\* the run has created no file under CAROOT or at the output paths and has
\* changed no trust store.
C12_ValidationErrorWritesNothing ==
    (pc = "idle" /\ ValidationError(exit.out)) =>
        /\ files \ {CARootDir} = {}
        /\ \A s \in Stores : ~trusted[s]

UninstallSteps == {"uninstall_nss", "uninstall_java", "uninstall_system"}

\* C13: every step of the Uninstall path leaves the files as they are, the
\* CA certificate and key that loadCA found or made among them.
C13_UninstallKeepsCA ==
    [][(m.UninstallMode /\ pc \in UninstallSteps) =>
          /\ files' = files
          /\ {rootName, rootKeyName} \subseteq files']_vars

\* The CA of an earlier run was loaded, the system store gave up its trust,
\* and the certificate and key are still there.
C13_Witness ==
    /\ pc = "idle" /\ m.UninstallMode
    /\ <<"ca", "", "load">> \in Events(log)
    /\ <<"uninstall", "system", "ok">> \in Events(log)
    /\ <<"install", "system", "ok">> \in Events(prevLog)
    /\ ~trusted["system"]
    /\ {rootName, rootKeyName} \subseteq files

\* C14: m.ignoreCheckFailure is set exactly when this run has installed the
\* CA in the system store with success (not when the store was already
\* trusted, disabled or the install failed, and not by the NSS or Java
\* installs); while it is set checkPlatform answers true whatever the
\* system pool says, and so does every system check logged after the
\* install; a run starts with it cleared.
C14_SuppressionFlag ==
    /\ m.ignoreCheckFailure <=> <<"install", "system", "ok">> \in Events(log)
    /\ m.ignoreCheckFailure => checkPlatform(m, pool)
    /\ \A i, j \in 1..Len(log) :
          (i < j /\ log[i] = <<"install", "system", "ok">>
                 /\ log[j][1] = "check" /\ log[j][2] = "system") => log[j][3] = "true"
    /\ pc = "Run" => ~m.ignoreCheckFailure

\* A second run installs in the system store after a first run failed to:
\* the flag is up, the pool loaded at the start still lacks the CA, and the
\* NSS and Java installs of the first run had left the flag down.
C14_Witness ==
    /\ pc = "idle" /\ runs = 2
    /\ m.ignoreCheckFailure /\ ~pool
    /\ <<"install", "system", "err">> \in Events(prevLog)
    /\ <<"install", "system", "ok">> \in Events(log)

OutcomeKinds == {"already", "now", "warn_certutil", "warn_keytool", "note_unsupported"}

\* The outcome lines install() has logged for store s.
Outcomes(l, s) ==
    {i \in 1..Len(l) : l[i][1] = "log" /\ l[i][2] = s /\ l[i][3] \in OutcomeKinds}

MissingTool(s) ==
    \/ s = "nss" /\ ~env.hasCertutil
    \/ s = "java" /\ ~env.hasKeytool

\* C15: when install() has run to its end, every store it processed has
\* exactly one outcome line in the log (already installed, now installed,
\* or a warning or note), and a store whose helper tool is missing has a
\* warning or note and no install attempt.
C15_OneOutcomePerBackend ==
    (m.InstallMode /\ <<"ret", "install", "nil">> \in Events(log)) =>
        \A s \in Stores :
            /\ Processed(log, s) => Cardinality(Outcomes(log, s)) = 1
            /\ (Processed(log, s) /\ MissingTool(s) /\ <<"check", s, "true">> \notin Events(log)) =>
                  /\ \E i \in Outcomes(log, s) : log[i][3] \notin {"already", "now"}
                  /\ \A e \in Events(log) : ~(e[1] = "install" /\ e[2] = s)

Classified == \E e \in Events(log) : e[1] = "classify"

\* The classes the loop passes over with "continue".
EarlyClass(name) == ParseIP(name) \/ ParseAddressExact(name) \/ ParseURLSchemeHost(name)

\* C16: an argument that is an IP literal, an exact e-mail address or a URI
\* with scheme and host is never given to idna.ToASCII or the hostname
\* grammar: it is left as it was, it is not among the names passed to
\* idna.ToASCII, and a list of such arguments only is accepted.
C16_EarlyClassesSkipHostnameChecks ==
    Classified =>
        /\ Len(args) = Len(argv)
        /\ \A i \in 1..Len(argv) : EarlyClass(argv[i]) => args[i] = argv[i]
        /\ \A k \in 1..Len(puny) : ~EarlyClass(puny[k])
        /\ (\A i \in 1..Len(argv) : EarlyClass(argv[i])) => <<"classify", "", "ok">> \in Events(log)

\* An IPv6 literal, which the hostname grammar would reject, next to a name
\* that is rewritten: the list is accepted, the literal untouched.
C16_Witness ==
    /\ pc = "idle"
    /\ argv = <<IPv6Name, IDNName>>
    /\ args = <<IPv6Name, IDNASCII>>
    /\ puny = <<IDNName>>
    /\ ~hostnameRegexpMatch(IPv6Name)
    /\ <<"classify", "", "ok">> \in Events(log)

\* A name made of an optional leading "*." and then labels separated by
\* single dots, each label a non-empty string of letters, digits, hyphens
\* and underscores.
LabelGrammar(name) ==
    LET rest == IF Len(name) >= 2 /\ name[1] = "*" /\ name[2] = "."
                THEN SubSeq(name, 3, Len(name)) ELSE name
        labels == SplitOn(rest, ".")
    IN \A k \in 1..Len(labels) :
          /\ Len(labels[k]) >= 1
          /\ \A i \in 1..Len(labels[k]) : LabelChar(labels[k][i])

\* C17: a hostname candidate is accepted exactly when it is an optional
\* single leading "*." followed by non-empty labels of letters, digits,
\* hyphens and underscores separated by dots; a name with an empty label is
\* rejected.
C17_HostnameGrammar ==
    (Classified /\ Len(argv) = 1 /\ ~EarlyClass(argv[1])) =>
        (<<"classify", "", "ok">> \in Events(log) <=> LabelGrammar(argv[1]))

\* What commandWithSudo returns for the privilege state a call has read.
Choice(uid0, sudo) == IF uid0 THEN "direct" ELSE IF sudo THEN "sudo" ELSE "plain"

\* C18: the sudo warning is printed at most once per process, whatever the
\* number and interleaving of the calls, and only by a call that found the
\* process not to be root and sudo missing; what a call returns depends on
\* the privilege state it has read itself and on nothing else.
C18_WarningOnce ==
    /\ Len(warned) <= 1
    /\ \A k \in 1..Len(warned) : ~warned[k].uid0 /\ ~warned[k].sudo
    /\ \A t \in Callers :
          (gpc[t] = "idle" /\ gres[t] # "none") => gres[t] = Choice(priv.uid0, gsaw[t])

\* Two calls were past the fast path before either had printed; one has
\* printed and returned, the other still waits for the mutex with done set.
C18_Witness ==
    /\ Len(warned) = 1
    /\ sudoWarningOnce.done
    /\ \E t, u \in Callers :
          /\ t # u
          /\ gres[t] = "plain" /\ gpc[t] = "idle"
          /\ gpc[u] = "lock"

\* C19: classification is all-or-nothing: when an entry is invalid Run
\* returns the error without issuing and with the argument list exactly as
\* it was passed in; entries are replaced by their normalised form only
\* when the whole list has classified.
C19_ClassificationAllOrNothing ==
    /\ (pc = "idle" /\ ValidationError(exit.out)) =>
          /\ args = argv
          /\ \A e \in Events(log) : e[1] # "issue"
    /\ args # argv => <<"classify", "", "ok">> \in Events(log)

\* C20: a "now uninstalled" line naming a store is logged only in a run
\* that has called the uninstall of that store; the NSS line is not logged
\* when the NSS uninstall was passed over for want of an NSS database.
C20_UninstalledOnlyAfterUninstall ==
    \A s \in Stores :
        <<"log", s, "now_uninstalled">> \in Events(log) =>
            \E e \in Events(log) : e[1] = "uninstall" /\ e[2] = s

====
